---- MODULE Spec2Model ----
(***************************************************************************)
(* Model of the pydantic tutorial scripts under src/examples.  The scripts *)
(* declare BaseModel classes and construct them; the behaviour modelled is *)
(* what those declarations and calls do when the scripts run (pydantic v2: *)
(* the scripts use model_dump_json and model_validate).                    *)
(***************************************************************************)
EXTENDS Integers, Sequences, FiniteSets, TLC

\* Longest list literal passed for skills / holidays / middle_name.
MaxLen == 2
\* Largest dict literal passed for name.
MaxKeys == 2
\* Number of DefaultsModel / DefaultsModel_Field construction calls.
MaxInst == 3

(***************************************************************************)
(* Python values, tagged by their run-time type.                           *)
(***************************************************************************)
VStr(s) == [t |-> "str", v |-> s]
VInt(n) == [t |-> "int", v |-> n]
VDatetime(d) == [t |-> "datetime", v |-> d]
VList(xs) == [t |-> "list", v |-> xs]
VDict(kvs) == [t |-> "dict", v |-> kvs]
VNone == [t |-> "none", v |-> 0]
\* A keyword argument that was not passed.
Missing == [t |-> "missing", v |-> 0]

\* datetime(y, mo, d, h, mi, s); tz is "" for a naive value, "Z" for UTC.
datetime(y, mo, d, h, mi, s) ==
    [y |-> y, mo |-> mo, d |-> d, h |-> h, mi |-> mi, s |-> s, tz |-> ""]

\* Days since 1970-01-01 to a civil (year, month, day).
CivilFromDays(days) ==
    LET z == days + 719468
        era == z \div 146097
        doe == z - era * 146097
        yoe == (doe - doe \div 1460 + doe \div 36524 - doe \div 146096) \div 365
        doy == doe - (365 * yoe + yoe \div 4 - yoe \div 100)
        mp == (5 * doy + 2) \div 153
        dd == doy - (153 * mp + 2) \div 5 + 1
        mm == IF mp < 10 THEN mp + 3 ELSE mp - 9
        yy == yoe + era * 400 + (IF mm <= 2 THEN 1 ELSE 0)
    IN  <<yy, mm, dd>>

\* An int given where a datetime is declared is read as seconds since the
\* epoch and becomes a UTC datetime (the library reads values above 2e10 as
\* milliseconds; no int of this model is that large).
FromTimestamp(n) ==
    LET secs == n
        c == CivilFromDays(secs \div 86400)
        r == secs % 86400
    IN  [y |-> c[1], mo |-> c[2], d |-> c[3],
         h |-> r \div 3600, mi |-> (r % 3600) \div 60, s |-> r % 60, tz |-> "Z"]

Pad2(n) == IF n < 10 THEN "0" \o ToString(n) ELSE ToString(n)

Pad4(n) ==
    IF n < 10 THEN "000" \o ToString(n)
    ELSE IF n < 100 THEN "00" \o ToString(n)
    ELSE IF n < 1000 THEN "0" \o ToString(n)
    ELSE ToString(n)

\* The date part of the ISO 8601 text.
IsoDate(d) == Pad4(d.y) \o "-" \o Pad2(d.mo) \o "-" \o Pad2(d.d)

\* The text model_dump_json writes for a datetime.
IsoFormat(d) ==
    IsoDate(d) \o "T" \o Pad2(d.h) \o ":" \o Pad2(d.mi) \o ":" \o Pad2(d.s) \o d.tz

(***************************************************************************)
(* The values the scripts pass.                                            *)
(***************************************************************************)
Christmas2024 == datetime(2024, 12, 25, 0, 0, 0)

SkillItems == {VStr(""), VInt(123)}

HolidayItems ==
    {VStr("Christmas"), VStr("2024-12-25"), VInt(12345), VDatetime(Christmas2024), VNone}

NameKeys == {VStr(""), VStr("first"), VInt(1)}

NameValues == {VStr(""), VInt(524)}

ScalarArgs == {VStr("marc"), VInt(123), Missing}

OptionalArgs == {VStr("Michael"), VNone, VInt(123), Missing}

\* The datetimes a string of the model can spell.
ParseDomain ==
    {Christmas2024} \cup {FromTimestamp(x.v) : x \in {y \in HolidayItems : y.t = "int"}}

SeqsUpTo(S, n) == UNION {[1..k -> S] : k \in 0..n}

\* Dict literals: key/value pairs in insertion order, keys distinct.
DictsUpTo(K, V, n) ==
    {kv \in SeqsUpTo(K \X V, n) :
        \A i, j \in 1..Len(kv) : i # j => kv[i][1] # kv[j][1]}

(***************************************************************************)
(* Declared types.                                                         *)
(***************************************************************************)
TStr == [k |-> "str", args |-> <<>>]
TDatetime == [k |-> "datetime", args |-> <<>>]
TAny == [k |-> "any", args |-> <<>>]
TList(item) == [k |-> "list", args |-> <<item>>]
TDict(key, val) == [k |-> "dict", args |-> <<key, val>>]
TUnion(alts) == [k |-> "union", args |-> alts]
\* Union[X, None]
TNullable(inner) == [k |-> "nullable", args |-> <<inner>>]

(***************************************************************************)
(* Validation of one value against one declared type.  The outcome is the  *)
(* validated value, or the line errors of the ValidationError; exact says  *)
(* that the value already had the declared type.                           *)
(***************************************************************************)
Ok(v, exact) == [ok |-> TRUE, val |-> v, exact |-> exact, errs |-> <<>>]

Err(type) == [ok |-> FALSE, val |-> VNone, exact |-> FALSE,
              errs |-> <<[type |-> type, loc |-> <<>>]>>]

Errs(es) == [ok |-> FALSE, val |-> VNone, exact |-> FALSE, errs |-> es]

\* with_outer_location: prefix every line error's location.
WithOuter(es, item) ==
    [i \in 1..Len(es) |-> [type |-> es[i].type, loc |-> <<item>> \o es[i].loc]]

RECURSIVE Concat(_)
Concat(ss) == IF ss = <<>> THEN <<>> ELSE Head(ss) \o Concat(Tail(ss))

\* As ValidateStr, with the empty string rejected.
ValidateStr_NonEmpty(v) ==
    IF v.t = "str" /\ v.v # "" THEN Ok(v, TRUE) ELSE Err("string_type")

ValidateStr(v) == IF v.t = "str" THEN Ok(v, TRUE) ELSE Err("string_type")

\* A str given where a datetime is declared is parsed as ISO 8601, a bare
\* date standing for midnight.
ParseDatetime(s) ==
    IF \E d \in ParseDomain : IsoFormat(d) = s
    THEN Ok(VDatetime(CHOOSE d \in ParseDomain : IsoFormat(d) = s), FALSE)
    ELSE IF \E d \in ParseDomain : IsoDate(d) = s
    THEN LET d == CHOOSE e \in ParseDomain : IsoDate(e) = s
         IN  Ok(VDatetime(datetime(d.y, d.mo, d.d, 0, 0, 0)), FALSE)
    ELSE Err("datetime_from_date_parsing")

ValidateDatetime(v) ==
    CASE v.t = "datetime" -> Ok(v, TRUE)
      [] v.t = "int" -> Ok(VDatetime(FromTimestamp(v.v)), FALSE)
      [] v.t = "str" -> ParseDatetime(v.v)
      [] OTHER -> Err("datetime_type")

TypeLabel(ty) == ty.k

\* As UnionPick, with the last accepting alternative chosen.
UnionPick_LastWins(rs, labels) ==
    IF \E i \in 1..Len(rs) : rs[i].ok
    THEN rs[CHOOSE i \in 1..Len(rs) :
                rs[i].ok /\ \A j \in (i + 1)..Len(rs) : ~rs[j].ok]
    ELSE Errs(Concat([i \in 1..Len(rs) |-> WithOuter(rs[i].errs, VStr(labels[i]))]))

\* Smart-mode union: an alternative the value matches exactly wins, else the
\* first alternative in declared order that accepts it after coercion, else
\* the line errors of every alternative, labelled by the alternative.
UnionPick(rs, labels) ==
    IF \E i \in 1..Len(rs) : rs[i].ok /\ rs[i].exact
    THEN rs[CHOOSE i \in 1..Len(rs) :
                /\ rs[i].ok /\ rs[i].exact
                /\ \A j \in 1..(i - 1) : ~(rs[j].ok /\ rs[j].exact)]
    ELSE IF \E i \in 1..Len(rs) : rs[i].ok
    THEN rs[CHOOSE i \in 1..Len(rs) :
                rs[i].ok /\ \A j \in 1..(i - 1) : ~rs[j].ok]
    ELSE Errs(Concat([i \in 1..Len(rs) |-> WithOuter(rs[i].errs, VStr(labels[i]))]))

\* List[X]: every item is validated; the errors of all items are kept, each
\* under its 0-based index.
ListCollect(rs) ==
    LET es == Concat([i \in 1..Len(rs) |-> WithOuter(rs[i].errs, VInt(i - 1))])
    IN  IF es = <<>>
        THEN Ok(VList([i \in 1..Len(rs) |-> rs[i].val]),
                \A i \in 1..Len(rs) : rs[i].exact)
        ELSE Errs(es)

\* As DictCollect, with the keys left unchecked.
DictCollect_ValuesOnly(kvs, rk, rv) ==
    LET es == Concat([i \in 1..Len(kvs) |-> WithOuter(rv[i].errs, kvs[i][1])])
    IN  IF es = <<>>
        THEN Ok(VDict([i \in 1..Len(kvs) |-> <<kvs[i][1], rv[i].val>>]),
                \A i \in 1..Len(kvs) : rv[i].exact)
        ELSE Errs(es)

\* Dict[K, V]: for every item the key, then the value, is validated; a key
\* error is located at (key, "[key]"), a value error at (key).
DictCollect(kvs, rk, rv) ==
    LET es == Concat([i \in 1..Len(kvs) |->
                  WithOuter(WithOuter(rk[i].errs, VStr("[key]")), kvs[i][1])
                  \o WithOuter(rv[i].errs, kvs[i][1])])
    IN  IF es = <<>>
        THEN Ok(VDict([i \in 1..Len(kvs) |-> <<rk[i].val, rv[i].val>>]),
                \A i \in 1..Len(kvs) : rk[i].exact /\ rv[i].exact)
        ELSE Errs(es)

RECURSIVE Validate(_, _)
Validate(ty, v) ==
    CASE ty.k = "str" -> ValidateStr(v)
      [] ty.k = "datetime" -> ValidateDatetime(v)
      [] ty.k = "any" -> Ok(v, TRUE)
      [] ty.k = "nullable" ->
            IF v.t = "none" THEN Ok(v, TRUE) ELSE Validate(ty.args[1], v)
      [] ty.k = "union" ->
            UnionPick([i \in 1..Len(ty.args) |-> Validate(ty.args[i], v)],
                      [i \in 1..Len(ty.args) |-> TypeLabel(ty.args[i])])
      [] ty.k = "list" ->
            IF v.t # "list" THEN Err("list_type")
            ELSE ListCollect([i \in 1..Len(v.v) |-> Validate(ty.args[1], v.v[i])])
      [] ty.k = "dict" ->
            IF v.t # "dict" THEN Err("dict_type")
            ELSE DictCollect(v.v,
                     [i \in 1..Len(v.v) |-> Validate(ty.args[1], v.v[i][1])],
                     [i \in 1..Len(v.v) |-> Validate(ty.args[2], v.v[i][2])])

(***************************************************************************)
(* The declared classes: fields in declaration order.                      *)
(***************************************************************************)
Required == [kind |-> "required", value |-> VNone]
Default(v) == [kind |-> "default", value |-> v]
DefaultFactory == [kind |-> "default_factory", value |-> VNone]

Field(name, type, default) == [name |-> name, type |-> type, default |-> default]

MyFirstModel ==
    <<Field("first_name", TStr, Required),
      Field("last_name", TStr, Required)>>

MySecondModel ==
    <<Field("first_name", TStr, Required),
      Field("middle_name", TNullable(TStr), Required)>>

NameModel ==
    <<Field("first_name", TStr, Required),
      Field("middle_name", TNullable(TStr), Default(VNone)),
      Field("last_name", TStr, Required)>>

MyThirdModel ==
    <<Field("name", TDict(TStr, TStr), Required),
      Field("skills", TList(TStr), Required),
      Field("holidays", TList(TUnion(<<TStr, TDatetime>>)), Required)>>

FieldNames(shape) == {shape[i].name : i \in 1..Len(shape)}


\* The class-level list object created once by `middle_name: list = []`.
DefaultObj == 1

DefaultsModel ==
    <<Field("first_name", TStr, Default(VStr("Cynthia"))),
      Field("middle_name", TList(TAny), Default([t |-> "ref", v |-> DefaultObj])),
      Field("last_name", TStr, Default(VStr("Frong")))>>

DefaultsModel_Field ==
    <<Field("first_name", TStr, Default(VStr("Cynthia"))),
      Field("middle_name", TList(TAny), DefaultFactory),
      Field("last_name", TStr, Default(VStr("Frong")))>>

Shape(name) ==
    CASE name = "MyFirstModel" -> MyFirstModel
      [] name = "MySecondModel" -> MySecondModel
      [] name = "NameModel" -> NameModel
      [] name = "MyThirdModel" -> MyThirdModel
      [] name = "DefaultsModel" -> DefaultsModel
      [] name = "DefaultsModel_Field" -> DefaultsModel_Field

(***************************************************************************)
(* Construction: Model called with keyword arguments.  h is the heap of list objects, read for  *)
(* a default that is a mutable object.                                     *)
(***************************************************************************)
\* As ResolveDefault, with Union[X, None] taken to default to None.
ResolveDefault_ImplicitNone(f, h) ==
    CASE f.default.kind = "required" ->
            IF f.type.k = "nullable" THEN Ok(VNone, TRUE) ELSE Err("missing")
      [] f.default.kind = "default_factory" -> Ok(VList(<<>>), TRUE)
      [] f.default.kind = "default" ->
            IF f.default.value.t = "ref"
            THEN Ok(VList(h[f.default.value.v]), TRUE)
            ELSE Ok(f.default.value, TRUE)

\* The value bound to a field that was not passed.
ResolveDefault(f, h) ==
    CASE f.default.kind = "required" -> Err("missing")
      [] f.default.kind = "default_factory" -> Ok(VList(<<>>), TRUE)
      [] f.default.kind = "default" ->
            IF f.default.value.t = "ref"
            THEN Ok(VList(h[f.default.value.v]), TRUE)
            ELSE Ok(f.default.value, TRUE)

ValidateField(f, input, h) ==
    IF input[f.name] = Missing
    THEN ResolveDefault(f, h)
    ELSE Validate(f.type, input[f.name])

\* As ValidateModel, stopping at the first field that cannot be bound.
ValidateModel_FailFast(shape, input, h) ==
    LET rs == [i \in 1..Len(shape) |-> ValidateField(shape[i], input, h)]
        bad == {i \in 1..Len(shape) : ~rs[i].ok}
        first == CHOOSE i \in bad : \A j \in bad : i <= j
    IN  IF bad = {}
        THEN [ok |-> TRUE,
              fields |-> [n \in FieldNames(shape) |->
                             rs[CHOOSE i \in 1..Len(shape) : shape[i].name = n].val],
              fields_set |-> {n \in FieldNames(shape) : input[n] # Missing},
              errs |-> <<>>]
        ELSE [ok |-> FALSE, fields |-> <<>>, fields_set |-> {},
              errs |-> WithOuter(rs[first].errs, VStr(shape[first].name))]

\* Every field is validated in declaration order and the line errors of all
\* of them are collected into one ValidationError; an instance exists only
\* when there is no line error.
ValidateModel(shape, input, h) ==
    LET rs == [i \in 1..Len(shape) |-> ValidateField(shape[i], input, h)]
        es == Concat([i \in 1..Len(shape) |-> WithOuter(rs[i].errs, VStr(shape[i].name))])
    IN  IF es = <<>>
        THEN [ok |-> TRUE,
              fields |-> [n \in FieldNames(shape) |->
                             rs[CHOOSE i \in 1..Len(shape) : shape[i].name = n].val],
              fields_set |-> {n \in FieldNames(shape) : input[n] # Missing},
              errs |-> <<>>]
        ELSE [ok |-> FALSE, fields |-> <<>>, fields_set |-> {}, errs |-> es]

(***************************************************************************)
(* Serialization: model_dump_json, json.loads.                             *)
(***************************************************************************)
JStr(s) == [t |-> "jstr", v |-> s]
JArr(xs) == [t |-> "jarr", v |-> xs]
JObj(kvs) == [t |-> "jobj", v |-> kvs]
JNull == [t |-> "jnull", v |-> 0]

RECURSIVE ToJson(_)
ToJson(v) ==
    CASE v.t = "str" -> JStr(v.v)
      [] v.t = "datetime" -> JStr(IsoFormat(v.v))
      [] v.t = "none" -> JNull
      [] v.t = "list" -> JArr([i \in 1..Len(v.v) |-> ToJson(v.v[i])])
      [] v.t = "dict" ->
            JObj([i \in 1..Len(v.v) |-> <<v.v[i][1].v, ToJson(v.v[i][2])>>])

\* The JSON document of an instance: one member per declared field.
model_dump_json(shape, fields) ==
    JObj([i \in 1..Len(shape) |-> <<shape[i].name, ToJson(fields[shape[i].name])>>])

RECURSIVE FromJson(_)
FromJson(j) ==
    CASE j.t = "jstr" -> VStr(j.v)
      [] j.t = "jnull" -> VNone
      [] j.t = "jarr" -> VList([i \in 1..Len(j.v) |-> FromJson(j.v[i])])
      [] j.t = "jobj" ->
            VDict([i \in 1..Len(j.v) |-> <<VStr(j.v[i][1]), FromJson(j.v[i][2])>>])

\* json.loads of a document, used as keyword arguments.
json_loads(shape, doc) ==
    [n \in FieldNames(shape) |->
        IF \E i \in 1..Len(doc.v) : doc.v[i][1] = n
        THEN FromJson(doc.v[CHOOSE i \in 1..Len(doc.v) : doc.v[i][1] = n][2])
        ELSE Missing]

(***************************************************************************)
(* State.                                                                  *)
(***************************************************************************)
VARIABLES
    pc,         \* position in the current test block of a script
    call,       \* the class and keyword arguments of the latest construction
    result,     \* what that construction produced: instance or ValidationError
    json_str,   \* example3 Test 10: original.model_dump_json()
    json_data,  \* example3 Test 10: json.loads(json_str)
    recreated,  \* example3 Test 10: MyThirdModel from json_data
    heap,       \* list objects by identity (example4): heap[id] is the content
    insts       \* example4: the instances alive, middle_name held by reference

vars == <<pc, call, result, json_str, json_data, recreated, heap, insts>>

NoCall == [shape |-> "", input |-> <<>>]
NoResult == [ok |-> FALSE, fields |-> <<>>, fields_set |-> {}, errs |-> <<>>]

Init ==
    /\ pc = "idle"
    /\ call = NoCall
    /\ result = NoResult
    /\ json_str = JNull
    /\ json_data = <<>>
    /\ recreated = NoResult
    /\ heap = <<(<<>>)>>
    /\ insts = <<>>

(***************************************************************************)
(* example1..example3: construct, then print the instance or the error.    *)
(***************************************************************************)
Construct(name, input) ==
    /\ call' = [shape |-> name, input |-> input]
    /\ result' = ValidateModel(Shape(name), input, heap)
    /\ pc' = "constructed"
    /\ UNCHANGED <<json_str, json_data, recreated, heap, insts>>

ConstructMyFirstModel ==
    /\ pc = "idle"
    /\ \E a, b \in ScalarArgs :
        Construct("MyFirstModel", [first_name |-> a, last_name |-> b])

ConstructMySecondModel ==
    /\ pc = "idle"
    /\ \E a \in ScalarArgs, m \in OptionalArgs :
        Construct("MySecondModel", [first_name |-> a, middle_name |-> m])

ConstructNameModel ==
    /\ pc = "idle"
    /\ \E a, b \in ScalarArgs, m \in OptionalArgs :
        Construct("NameModel", [first_name |-> a, middle_name |-> m, last_name |-> b])

MyThirdModelInputs ==
    [name : {VDict(kv) : kv \in DictsUpTo(NameKeys, NameValues, MaxKeys)} \cup {Missing},
     skills : {VList(xs) : xs \in SeqsUpTo(SkillItems, MaxLen)} \cup {Missing},
     holidays : {VList(xs) : xs \in SeqsUpTo(HolidayItems, MaxLen)} \cup {Missing}]

ConstructMyThirdModel ==
    /\ pc = "idle"
    /\ \E input \in MyThirdModelInputs : Construct("MyThirdModel", input)

\* print(...) in the try or the except branch; the script moves on.
PrintResult ==
    /\ pc \in {"constructed", "recreated"}
    /\ pc' = "idle"
    /\ call' = NoCall
    /\ result' = NoResult
    /\ json_str' = JNull
    /\ json_data' = <<>>
    /\ recreated' = NoResult
    /\ UNCHANGED <<heap, insts>>

\* json_str = original.model_dump_json()
ModelDumpJson ==
    /\ pc = "constructed"
    /\ call.shape = "MyThirdModel"
    /\ result.ok
    /\ json_str' = model_dump_json(MyThirdModel, result.fields)
    /\ pc' = "dumped"
    /\ UNCHANGED <<call, result, json_data, recreated, heap, insts>>

\* json_data = json.loads(json_str)
JsonLoads ==
    /\ pc = "dumped"
    /\ json_data' = json_loads(MyThirdModel, json_str)
    /\ pc' = "loaded"
    /\ UNCHANGED <<call, result, json_str, recreated, heap, insts>>

\* recreated = MyThirdModel from json_data
Recreate ==
    /\ pc = "loaded"
    /\ recreated' = ValidateModel(MyThirdModel, json_data, heap)
    /\ pc' = "recreated"
    /\ UNCHANGED <<call, result, json_str, json_data, heap, insts>>

Next ==
    \/ ConstructMyFirstModel
    \/ ConstructMySecondModel
    \/ ConstructNameModel
    \/ ConstructMyThirdModel
    \/ ModelDumpJson
    \/ JsonLoads
    \/ Recreate
    \/ PrintResult

Spec == Init /\ [][Next]_vars


(***************************************************************************)
(* example4: instances whose middle_name is a list object, and appends to  *)
(* that object through an instance.                                        *)
(***************************************************************************)
Ref(id) == [t |-> "ref", v |-> id]

\* As BindObject, with a default factory that hands out one shared list.
BindObject_SharedFactory(f, supplied, h) ==
    IF ~supplied /\ f.default.kind = "default_factory" THEN DefaultObj ELSE Len(h) + 1

\* As BindObject, with the class-level default bound without a copy.
BindObject_SharedDefault(f, supplied, h) ==
    IF ~supplied /\ f.default.kind = "default" THEN f.default.value.v ELSE Len(h) + 1

\* The list object a new instance's middle_name is bound to.  A list that
\* was passed is validated into a new list; a default that is not hashable
\* is deep-copied for each instance; a default factory is called for each
\* instance.  In every case the object is a new one.
BindObject(f, supplied, h) == Len(h) + 1

MiddleNameField(shape) == shape[CHOOSE i \in 1..Len(shape) : shape[i].name = "middle_name"]

DefaultsInputs ==
    [first_name : {Missing, VInt(123)},
     middle_name : {Missing, VList(<<VStr("Anne")>>)},
     last_name : {Missing}]

ConstructDefaults(name, input) ==
    /\ call' = [shape |-> name, input |-> input]
    /\ result' = ValidateModel(Shape(name), input, heap)
    /\ IF result'.ok
       THEN LET obj == BindObject(MiddleNameField(Shape(name)),
                                  input.middle_name # Missing, heap)
            IN  /\ heap' = IF obj > Len(heap)
                           THEN Append(heap, result'.fields.middle_name.v)
                           ELSE heap
                /\ insts' = Append(insts,
                       [shape |-> name,
                        fields |-> [result'.fields EXCEPT !.middle_name = Ref(obj)],
                        fields_set |-> result'.fields_set])
       ELSE UNCHANGED <<heap, insts>>
    /\ UNCHANGED <<pc, json_str, json_data, recreated>>

\* a = DefaultsModel(), b = DefaultsModel()
ConstructDefaultsModel ==
    /\ Len(insts) < MaxInst
    /\ \E input \in DefaultsInputs : ConstructDefaults("DefaultsModel", input)

\* x = DefaultsModel_Field(), y = DefaultsModel_Field()
ConstructDefaultsModelField ==
    /\ Len(insts) < MaxInst
    /\ \E input \in DefaultsInputs : ConstructDefaults("DefaultsModel_Field", input)

\* a.middle_name.append("Marie") through instance i
Append_middle_name(i, s) ==
    /\ i \in 1..Len(insts)
    /\ Len(heap[insts[i].fields.middle_name.v]) < MaxLen
    /\ heap' = [heap EXCEPT ![insts[i].fields.middle_name.v] = Append(@, VStr(s))]
    /\ UNCHANGED <<pc, call, result, json_str, json_data, recreated, insts>>

AppendMiddleName == \E i \in 1..Len(insts) : Append_middle_name(i, "Marie")

\* What instance i shows for middle_name.
MiddleName(i) == heap[insts[i].fields.middle_name.v]

NextDefaults ==
    \/ ConstructDefaultsModel
    \/ ConstructDefaultsModelField
    \/ AppendMiddleName

SpecDefaults == Init /\ [][NextDefaults]_vars

(***************************************************************************)
(* example1, example2 and the second half of example4 together: the        *)
(* classes with a required field (MyFirstModel, MySecondModel, NameModel), *)
(* with a fixed default (NameModel) and with a default factory             *)
(* (DefaultsModel_Field).                                                  *)
(***************************************************************************)
NextConstructions ==
    \/ ConstructMyFirstModel
    \/ ConstructMySecondModel
    \/ ConstructNameModel
    \/ PrintResult
    \/ ConstructDefaultsModelField
    \/ AppendMiddleName

SpecConstructions == Init /\ [][NextConstructions]_vars


(***************************************************************************)
(* Vocabulary of the properties.                                           *)
(***************************************************************************)
\* v has the declared type ty as it stands.
RECURSIVE Satisfies(_, _)
Satisfies(ty, v) ==
    CASE ty.k = "str" -> v.t = "str"
      [] ty.k = "datetime" -> v.t = "datetime"
      [] ty.k = "any" -> TRUE
      [] ty.k = "nullable" -> v.t = "none" \/ Satisfies(ty.args[1], v)
      [] ty.k = "union" -> \E i \in 1..Len(ty.args) : Satisfies(ty.args[i], v)
      [] ty.k = "list" ->
            v.t = "list" /\ \A i \in 1..Len(v.v) : Satisfies(ty.args[1], v.v[i])
      [] ty.k = "dict" ->
            /\ v.t = "dict"
            /\ \A i \in 1..Len(v.v) :
                  Satisfies(ty.args[1], v.v[i][1]) /\ Satisfies(ty.args[2], v.v[i][2])

\* v has the declared type ty or converts to it.
RECURSIVE Convertible(_, _)
Convertible(ty, v) ==
    CASE ty.k = "str" -> v.t = "str"
      [] ty.k = "datetime" ->
            \/ v.t \in {"datetime", "int"}
            \/ v.t = "str" /\ \E d \in ParseDomain : v.v \in {IsoFormat(d), IsoDate(d)}
      [] ty.k = "any" -> TRUE
      [] ty.k = "nullable" -> v.t = "none" \/ Convertible(ty.args[1], v)
      [] ty.k = "union" -> \E i \in 1..Len(ty.args) : Convertible(ty.args[i], v)
      [] ty.k = "list" ->
            v.t = "list" /\ \A i \in 1..Len(v.v) : Convertible(ty.args[1], v.v[i])
      [] ty.k = "dict" ->
            /\ v.t = "dict"
            /\ \A i \in 1..Len(v.v) :
                  Convertible(ty.args[1], v.v[i][1]) /\ Convertible(ty.args[2], v.v[i][2])

\* Field i of the latest call cannot be bound: not passed and required, or
\* passed a value its type rejects.
Offending(shape, input, i) ==
    IF input[shape[i].name] = Missing
    THEN shape[i].default.kind = "required"
    ELSE ~Convertible(shape[i].type, input[shape[i].name])

FieldIndex(shape, n) == CHOOSE i \in 1..Len(shape) : shape[i].name = n

\* The declared fields the line errors are about, in the order reported.
ErrorFields(es) == [k \in 1..Len(es) |-> es[k].loc[1].v]

Constructed == pc = "constructed"

ThirdConstructed == pc = "constructed" /\ call.shape = "MyThirdModel"

IsFactoryOmitted(i) ==
    /\ insts[i].shape = "DefaultsModel_Field"
    /\ "middle_name" \notin insts[i].fields_set

IsFixedOmitted(i) ==
    /\ insts[i].shape = "DefaultsModel"
    /\ "middle_name" \notin insts[i].fields_set


(***************************************************************************)
(* Properties of example4 (SpecDefaults).                                  *)
(***************************************************************************)
\* C1: instances of DefaultsModel_Field built with middle_name omitted are
\* independent: an append through one of them leaves the middle_name of
\* every other one unchanged, and an instance built later starts from an
\* empty list whatever was appended before.
C1_DefaultFactoryIndependence ==
    [][/\ \A i, j \in 1..Len(insts) :
             (/\ i # j
              /\ IsFactoryOmitted(i)
              /\ IsFactoryOmitted(j)
              /\ Append_middle_name(i, "Marie"))
             => heap'[insts[j].fields.middle_name.v] = MiddleName(j)
       /\ (/\ Len(insts') = Len(insts) + 1
           /\ insts'[Len(insts')].shape = "DefaultsModel_Field"
           /\ "middle_name" \notin insts'[Len(insts')].fields_set)
          => heap'[insts'[Len(insts')].fields.middle_name.v] = <<>>]_vars

\* x appended to, y built after it and still empty.
C1_Witness ==
    \E i, j \in 1..Len(insts) :
        /\ i < j
        /\ IsFactoryOmitted(i)
        /\ IsFactoryOmitted(j)
        /\ MiddleName(i) = <<VStr("Marie")>>
        /\ MiddleName(j) = <<>>

\* C2: instances of DefaultsModel built with middle_name omitted share one
\* list: what is appended through one is seen through the other, so they
\* always show the same middle_name.
C2_FixedDefaultShared ==
    \A i, j \in 1..Len(insts) :
        (IsFixedOmitted(i) /\ IsFixedOmitted(j)) => MiddleName(i) = MiddleName(j)

\* C10: construction is a function of the class and the arguments: in every
\* state reached by earlier constructions, failed or not, and by appends
\* to earlier instances, constructing from given arguments gives what it
\* gave at the start, and the class-level default is as declared.
C10_ConstructionIsPure ==
    /\ heap[DefaultObj] = <<>>
    /\ \A name \in {"DefaultsModel", "DefaultsModel_Field"}, input \in DefaultsInputs :
          ValidateModel(Shape(name), input, heap)
              = ValidateModel(Shape(name), input, <<(<<>>)>>)

\* An earlier DefaultsModel instance was appended to, an earlier call
\* failed or succeeded, and the latest DefaultsModel() still got [].
C10_Witness ==
    /\ call.shape = "DefaultsModel"
    /\ call.input.middle_name = Missing
    /\ result.ok
    /\ result.fields.middle_name = VList(<<>>)
    /\ Len(insts) >= 2
    /\ IsFixedOmitted(1)
    /\ MiddleName(1) = <<VStr("Marie")>>
    /\ IsFixedOmitted(Len(insts))
    /\ MiddleName(Len(insts)) = <<>>


(***************************************************************************)
(* Properties of example1..example3 (Spec).                                *)
(***************************************************************************)
\* C3: for every valid instance, parsing its dump succeeds and
\* gives an instance equal to it in every field, datetime items of holidays
\* included.
C3_RoundTripExact ==
    pc = "recreated" => (recreated.ok /\ recreated.fields = result.fields)

\* C4: a construction ends in an instance whose fields all satisfy
\* their types, or in one error with no instance; and when several fields
\* offend, validation stops at the first of them in declaration order, so
\* the error is about that field alone.
C4_FailFastFirstFieldOnly ==
    Constructed =>
        LET shape == Shape(call.shape)
        IN  \/ /\ result.ok
               /\ result.errs = <<>>
               /\ \A i \in 1..Len(shape) :
                     Satisfies(shape[i].type, result.fields[shape[i].name])
            \/ /\ ~result.ok
               /\ result.fields = <<>>
               /\ result.errs # <<>>
               /\ \A k \in 1..Len(result.errs) :
                     /\ result.errs[k].loc[1] = result.errs[1].loc[1]
                     /\ \A i \in 1..(FieldIndex(shape, result.errs[1].loc[1].v) - 1) :
                           ~Offending(shape, call.input, i)

\* C4 amended: a construction ends in an instance whose fields all satisfy
\* their types, or in one ValidationError with no instance; when several
\* fields offend, that one error reports every offending field, in
\* declaration order, beginning with the first offending field: validation
\* goes on past the first offending field.
C4_TwoOutcomesAllFieldsReported ==
    Constructed =>
        LET shape == Shape(call.shape)
            ef == ErrorFields(result.errs)
        IN  \/ /\ result.ok
               /\ result.errs = <<>>
               /\ \A i \in 1..Len(shape) : ~Offending(shape, call.input, i)
               /\ \A i \in 1..Len(shape) :
                     Satisfies(shape[i].type, result.fields[shape[i].name])
            \/ /\ ~result.ok
               /\ result.fields = <<>>
               /\ result.errs # <<>>
               /\ {ef[k] : k \in 1..Len(ef)}
                     = {shape[i].name : i \in {j \in 1..Len(shape) :
                                                  Offending(shape, call.input, j)}}
               /\ \A k \in 1..(Len(ef) - 1) :
                     FieldIndex(shape, ef[k]) <= FieldIndex(shape, ef[k + 1])

\* A failed construction whose error reports two fields.
C4_Witness ==
    /\ Constructed
    /\ ~result.ok
    /\ result.fields = <<>>
    /\ \E k \in 1..Len(result.errs) : result.errs[k].loc[1] # result.errs[1].loc[1]

\* C5: when every value passed already has its field's declared type and no
\* required field is left out, construction succeeds and every field passed
\* is bound to the value passed; empty dicts, empty lists and empty strings
\* are such values.
C5_ValidInputAccepted ==
    Constructed =>
        LET shape == Shape(call.shape)
        IN  (\A i \in 1..Len(shape) :
                IF call.input[shape[i].name] = Missing
                THEN shape[i].default.kind # "required"
                ELSE Satisfies(shape[i].type, call.input[shape[i].name]))
            => /\ result.ok
               /\ \A i \in 1..Len(shape) :
                     call.input[shape[i].name] # Missing
                        => result.fields[shape[i].name] = call.input[shape[i].name]

\* example3 Test 12 and Test 8: empty strings as key, value and item, and
\* an empty list.
C5_Witness ==
    /\ ThirdConstructed
    /\ call.input.name = VDict(<< <<VStr(""), VStr("")>> >>)
    /\ call.input.skills = VList(<<VStr("")>>)
    /\ call.input.holidays = VList(<<>>)
    /\ result.ok
    /\ result.fields = call.input

\* The default a field declares, as written in the class body.
DeclaredDefault(f) ==
    IF f.default.value.t = "ref" THEN VList(<<>>) ELSE f.default.value

\* C6: in the latest construction, a declared field that was not passed is
\* bound to its fixed default if it has one, else to what its default
\* factory makes (an empty list), else the construction fails with a
\* "missing" error located at that field; Union[str, None] without a
\* default is required like any other field.
C6_MissingFieldResolution ==
    call.shape # "" =>
        LET shape == Shape(call.shape)
        IN  \A i \in 1..Len(shape) :
               call.input[shape[i].name] = Missing =>
                  CASE shape[i].default.kind = "default" ->
                          /\ \A k \in 1..Len(result.errs) :
                                result.errs[k].loc[1] # VStr(shape[i].name)
                          /\ result.ok =>
                                /\ result.fields[shape[i].name] = DeclaredDefault(shape[i])
                                /\ shape[i].name \notin result.fields_set
                    [] shape[i].default.kind = "default_factory" ->
                          /\ \A k \in 1..Len(result.errs) :
                                result.errs[k].loc[1] # VStr(shape[i].name)
                          /\ result.ok =>
                                /\ result.fields[shape[i].name] = VList(<<>>)
                                /\ shape[i].name \notin result.fields_set
                    [] shape[i].default.kind = "required" ->
                          /\ ~result.ok
                          /\ \E k \in 1..Len(result.errs) :
                                /\ result.errs[k].type = "missing"
                                /\ result.errs[k].loc = <<VStr(shape[i].name)>>

\* NameModel without middle_name has it None (fixed default), in a run where
\* a DefaultsModel_Field instance was appended to and a later
\* DefaultsModel_Field() got an empty list of its own (default factory).
C6_Witness ==
    /\ Constructed
    /\ call.shape = "NameModel"
    /\ call.input.middle_name = Missing
    /\ result.ok
    /\ result.fields.middle_name = VNone
    /\ \E i, j \in 1..Len(insts) :
          /\ i < j
          /\ IsFactoryOmitted(i)
          /\ MiddleName(i) = <<VStr("Marie")>>
          /\ IsFactoryOmitted(j)
          /\ MiddleName(j) = <<>>

\* The required case: MySecondModel without middle_name fails with
\* "missing" at middle_name although the type admits None.
C6_WitnessRequired ==
    /\ Constructed
    /\ call.shape = "MySecondModel"
    /\ call.input.first_name # Missing
    /\ call.input.middle_name = Missing
    /\ ~result.ok
    /\ result.errs = <<[type |-> "missing", loc |-> <<VStr("middle_name")>>]>>

\* The default-factory case as the latest construction.
C6_WitnessFactory ==
    /\ call.shape = "DefaultsModel_Field"
    /\ call.input.middle_name = Missing
    /\ result.ok
    /\ result.fields.middle_name = VList(<<>>)
    /\ \E i \in 1..(Len(insts) - 1) :
          IsFactoryOmitted(i) /\ MiddleName(i) = <<VStr("Marie")>>

\* The first item of a dict literal with a key or a value that is not a str,
\* and whether it is the key.
FirstBadItem(kvs) ==
    CHOOSE i \in 1..Len(kvs) :
        /\ kvs[i][1].t # "str" \/ kvs[i][2].t # "str"
        /\ \A j \in 1..(i - 1) : kvs[j][1].t = "str" /\ kvs[j][2].t = "str"

\* C7: when the dict passed for name has a key that is not a str or a value
\* that is not a str, construction fails, whatever the other fields hold,
\* and the error names the first offending key (at name, key, "[key]") or
\* value (at name, key) as not a string.
C7_DictKeysAndValuesChecked ==
    (/\ ThirdConstructed
     /\ call.input.name # Missing
     /\ \E i \in 1..Len(call.input.name.v) :
           call.input.name.v[i][1].t # "str" \/ call.input.name.v[i][2].t # "str")
    => LET kvs == call.input.name.v
           b == FirstBadItem(kvs)
       IN  /\ ~result.ok
           /\ result.errs[1].type = "string_type"
           /\ result.errs[1].loc =
                 IF kvs[b][1].t # "str"
                 THEN <<VStr("name"), kvs[b][1], VStr("[key]")>>
                 ELSE <<VStr("name"), kvs[b][1]>>

\* example3 Test 3: an int key, everything else valid.
C7_Witness ==
    /\ ThirdConstructed
    /\ call.input.name = VDict(<< <<VInt(1), VStr("")>>, <<VStr("first"), VStr("")>> >>)
    /\ call.input.skills = VList(<<VStr("")>>)
    /\ call.input.holidays = VList(<<VStr("Christmas")>>)
    /\ ~result.ok
    /\ Len(result.errs) = 1

\* C8: when the list passed for holidays has an item that is neither a str
\* nor a datetime, construction fails with an error located at that item's
\* index; holidays = ["Christmas", 12345] fails at index 1.
C8_UnionRejection ==
    ThirdConstructed =>
        \A k \in 1..(IF call.input.holidays = Missing THEN 0
                     ELSE Len(call.input.holidays.v)) :
            call.input.holidays.v[k].t \notin {"str", "datetime"}
            => /\ ~result.ok
               /\ \E e \in 1..Len(result.errs) :
                     /\ Len(result.errs[e].loc) >= 2
                     /\ result.errs[e].loc[1] = VStr("holidays")
                     /\ result.errs[e].loc[2] = VInt(k - 1)

\* C9: every item of holidays is resolved on its own against str, then
\* datetime: the first of the two that accepts it gives the bound value, so
\* a str item, date-looking or not, stays that str, a datetime item stays
\* that datetime, and each item keeps its position.
C9_OrderedUnionResolution ==
    (ThirdConstructed /\ result.ok) =>
        /\ Len(result.fields.holidays.v) = Len(call.input.holidays.v)
        /\ \A k \in 1..Len(call.input.holidays.v) :
              LET x == call.input.holidays.v[k]
                  y == result.fields.holidays.v[k]
              IN  /\ x.t \in {"str", "datetime"} => y = x
                  /\ y = IF ValidateStr(x).ok THEN ValidateStr(x).val
                         ELSE ValidateDatetime(x).val

\* example3 Test 5 and Test 7: a date-looking str next to a datetime.
C9_Witness ==
    /\ ThirdConstructed
    /\ result.ok
    /\ call.input.holidays = VList(<<VStr("2024-12-25"), VDatetime(Christmas2024)>>)
    /\ result.fields.holidays = call.input.holidays

====
